---- MODULE Spec2Model ----
(***************************************************************************)
(* A* path finder for Processing.py (src/src/astar.py, src/src/node.py).   *)
(*                                                                         *)
(* The grid `nodes` is modelled field by field: obstacle, visited,         *)
(* localcost, globalcost, parent and neighbours are functions of the cell  *)
(* <<row, col>>.  modify_path is the event handler; the sequential run of  *)
(* find_path inside it is followed by pc: the handler's edit together with *)
(* find_path's reset and seeding is one step, every pass of the search     *)
(* loop is one step, and build_path is the last step.  No event is handled *)
(* while a search is running (Processing delivers events one at a time).   *)
(*                                                                         *)
(* Costs are kept in units of `scale` pixels (one cell width): a step      *)
(* between neighbours costs sqrt(scale^2) = scale pixels = 1 unit, and the *)
(* heuristic sqrt(dx^2 + dy^2) is scale * sqrt(drow^2 + dcol^2).  A        *)
(* globalcost is the pair [l, h2] that stands for l + sqrt(h2), and pairs  *)
(* are compared exactly.                                                   *)
(***************************************************************************)
EXTENDS Integers, Sequences, FiniteSets, TLC

\* Bounds of the model.  The sketch itself is size(800, 800) with scale 25,
\* a 32 x 32 grid with the endpoints 5 columns from the left and right edge.
Rows == 2
Cols == 2
Inset == 1
MaxObstacles == 2
MaxSide == 3

\* astar.py:26
scale == 25
\* node.py:11, 10**10 pixels in units of scale (10**10 / 25)
Sentinel == 400000000
\* astar.py:203, Processing's LEFT mouse button
LEFT == 37
\* astar.py:199, the key code of Shift
SHIFT == 16
\* astar.py:200, the key code of Command
COMMAND == 157

None == <<>>

VARIABLES
    rows,        \* len(nodes)
    cols,        \* len(nodes[0])
    a,           \* the source endpoint, a tuple (row, col)
    z,           \* the destination endpoint, a tuple (row, col)
    obstacle,    \* node.obstacle of every cell
    visited,     \* node.visited
    localcost,   \* node.localcost
    globalcost,  \* node.globalcost, [l, h2] for l + sqrt(h2)
    parent,      \* node.parent, a cell or None
    neighbours,  \* node.neighbours, a sequence of cells
    path,        \* the global list path
    boundary,    \* find_path's local list boundary
    current,     \* find_path's local current
    pc,          \* "idle" between events, "search" inside find_path's loop
    raised       \* an IndexError left modify_path and ended the sketch

vars == <<rows, cols, a, z, obstacle, visited, localcost, globalcost, parent,
          neighbours, path, boundary, current, pc, raised>>

Abs(x) == IF x < 0 THEN -x ELSE x

Cells == (0 .. rows - 1) \X (0 .. cols - 1)

----------------------------------------------------------------------------
\* Python list indexing: nodes[i] accepts -len <= i < len, and a negative
\* index counts from the end.
IndexOK(i, n) == -n <= i /\ i < n

PyIndex(i, n) == IF i < 0 THEN i + n ELSE i

\* get_node(index) for a tuple: nodes[index[0]][index[1]]
GetNodeOK(index) == IndexOK(index[1], rows) /\ IndexOK(index[2], cols)

get_node(index) == <<PyIndex(index[1], rows), PyIndex(index[2], cols)>>

\* Node.x and Node.y as set by initialise_nodes (x + sz, y + sz with
\* sz = scale * 0.5), doubled to stay in the integers.
NodeX2(n) == 2 * n[2] * scale + scale

NodeY2(n) == 2 * n[1] * scale + scale

\* euclidean_distance(a, b) squared, in units of scale^2.
EuclidSq(m, n) ==
    ((NodeX2(m) - NodeX2(n)) * (NodeX2(m) - NodeX2(n))
      + (NodeY2(m) - NodeY2(n)) * (NodeY2(m) - NodeY2(n))) \div (4 * scale * scale)

\* math.sqrt of a square number.
Root(n) == CHOOSE k \in 0 .. n : k * k = n

\* The order of a greedy search: the heuristic alone, the local cost left out.
CostLess_heuristic_only(g1, g2) == g1.h2 < g2.h2

\* g1 < g2 for two costs l + sqrt(h2), decided in the integers.
CostLess(g1, g2) ==
    LET d == g2.l - g1.l
    IN  IF d >= 0
        THEN LET e == g1.h2 - d * d - g2.h2
             IN  IF e < 0 THEN d > 0 \/ g1.h2 < g2.h2
                 ELSE e * e < 4 * d * d * g2.h2
        ELSE LET f == g2.h2 - g1.h2 - d * d
             IN  f > 0 /\ 4 * d * d * g1.h2 < f * f

----------------------------------------------------------------------------
\* in_range(r, c, rm, cm)
in_range(r, c, rm, cm) ==
    LET is_neighbour == r * c # r + c
        r_in_range == r + rm > -1 /\ r + rm < rows
        c_in_range == c + cm > -1 /\ c + cm < cols
    IN  is_neighbour /\ r_in_range /\ c_in_range

\* The offsets (r, c) in the order of append_neighbours' two loops.
Offsets ==
    << <<-1, -1>>, <<-1, 0>>, <<-1, 1>>, <<0, -1>>, <<0, 0>>, <<0, 1>>,
       <<1, -1>>, <<1, 0>>, <<1, 1>> >>

\* append_neighbours without abs(r) != abs(c), as its docstring proposes for
\* diagonal moves.
RECURSIVE append_neighbours_diagonal(_, _, _)
append_neighbours_diagonal(row, col, i) ==
    IF i > Len(Offsets) THEN <<>>
    ELSE LET r == Offsets[i][1]
             c == Offsets[i][2]
         IN  (IF in_range(r, c, row, col)
              THEN << <<row + r, col + c>> >> ELSE <<>>)
             \o append_neighbours_diagonal(row, col, i + 1)

RECURSIVE append_neighbours(_, _, _)
append_neighbours(row, col, i) ==
    IF i > Len(Offsets) THEN <<>>
    ELSE LET r == Offsets[i][1]
             c == Offsets[i][2]
         IN  (IF Abs(r) # Abs(c) /\ in_range(r, c, row, col)
              THEN << <<row + r, col + c>> >> ELSE <<>>)
             \o append_neighbours(row, col, i + 1)

find_neighbours == [n \in Cells |-> append_neighbours(n[1], n[2], 1)]

----------------------------------------------------------------------------
\* A descending sort that puts a node in front of the nodes of equal cost:
\* not stable.
RECURSIVE InsertDesc_before_equals(_, _, _)
InsertDesc_before_equals(s, x, G) ==
    IF s = <<>> THEN <<x>>
    ELSE IF ~CostLess(G[x], G[Head(s)]) THEN <<x>> \o s
    ELSE <<Head(s)>> \o InsertDesc_before_equals(Tail(s), x, G)

\* boundary.sort(key = globalcost, reverse = True): a stable sort, equal keys
\* keep their order.
RECURSIVE InsertDesc(_, _, _)
InsertDesc(s, x, G) ==
    IF s = <<>> THEN <<x>>
    ELSE IF CostLess(G[Head(s)], G[x]) THEN <<x>> \o s
    ELSE <<Head(s)>> \o InsertDesc(Tail(s), x, G)

\* The sort without reverse = True: ascending, the largest cost last.
RECURSIVE InsertAsc(_, _, _)
InsertAsc(s, x, G) ==
    IF s = <<>> THEN <<x>>
    ELSE IF CostLess(G[x], G[Head(s)]) THEN <<x>> \o s
    ELSE <<Head(s)>> \o InsertAsc(Tail(s), x, G)

RECURSIVE SortAsc(_, _)
SortAsc(s, G) ==
    IF s = <<>> THEN <<>>
    ELSE InsertAsc(SortAsc(SubSeq(s, 1, Len(s) - 1), G), s[Len(s)], G)

RECURSIVE SortDesc(_, _)
SortDesc(s, G) ==
    IF s = <<>> THEN <<>>
    ELSE InsertDesc(SortDesc(SubSeq(s, 1, Len(s) - 1), G), s[Len(s)], G)

\* The loop without line 235: visited nodes stay at the end of boundary.
KeepVisited(s, V) == s

\* while boundary and boundary[-1].visited: boundary.pop()
RECURSIVE DropVisited(_, _)
DropVisited(s, V) ==
    IF s # <<>> /\ V[s[Len(s)]] THEN DropVisited(SubSeq(s, 1, Len(s) - 1), V)
    ELSE s

\* The search-transient fields of all nodes, with find_path's locals.
Fields ==
    [visited |-> visited, localcost |-> localcost, globalcost |-> globalcost,
     parent |-> parent, boundary |-> boundary, current |-> current]

\* reset_nodes that leaves the visited flags as they are.
reset_nodes_keeps_visited(nd) ==
    [nd EXCEPT !.localcost = [n \in Cells |-> Sentinel],
               !.globalcost = [n \in Cells |-> [l |-> Sentinel, h2 |-> 0]],
               !.parent = [n \in Cells |-> None]]

\* reset_nodes that leaves the parent links as they are.
reset_nodes_keeps_parent(nd) ==
    [nd EXCEPT !.visited = [n \in Cells |-> FALSE],
               !.localcost = [n \in Cells |-> Sentinel],
               !.globalcost = [n \in Cells |-> [l |-> Sentinel, h2 |-> 0]]]

\* reset_nodes that leaves the costs as they are.
reset_nodes_keeps_cost(nd) ==
    [nd EXCEPT !.visited = [n \in Cells |-> FALSE],
               !.parent = [n \in Cells |-> None]]

\* reset_nodes()
reset_nodes(nd) ==
    [nd EXCEPT !.visited = [n \in Cells |-> FALSE],
               !.localcost = [n \in Cells |-> Sentinel],
               !.globalcost = [n \in Cells |-> [l |-> Sentinel, h2 |-> 0]],
               !.parent = [n \in Cells |-> None]]

\* find_path up to the head of its loop (lines 224-231), start and end being
\* get_node([a, z]).
find_path_seed(nd, start, end) ==
    [reset_nodes(nd) EXCEPT
        !.localcost[start] = 0,
        !.globalcost[start] = [l |-> 0, h2 |-> EuclidSq(start, end)],
        !.current = start,
        !.boundary = <<start>>]

\* The loop with an early exit: nothing is left to pop once the destination
\* is visited.
Frontier_early_exit(nd) ==
    IF nd.visited[get_node(z)] THEN <<>>
    ELSE DropVisited(SortDesc(nd.boundary, nd.globalcost), nd.visited)

\* Lines 234-235 of find_path: the sorted boundary without its visited tail.
Frontier(nd) == DropVisited(SortDesc(nd.boundary, nd.globalcost), nd.visited)

\* update_cost without node.localcost = cost.
update_cost_keeps_cost(nd, node, par, cost) ==
    [nd EXCEPT !.parent[node] = par,
               !.globalcost[node] = [l |-> cost, h2 |-> EuclidSq(node, get_node(z))]]

\* update_cost(node, parent, cost)
update_cost(nd, node, par, cost) ==
    [nd EXCEPT !.parent[node] = par,
               !.localcost[node] = cost,
               !.globalcost[node] = [l |-> cost, h2 |-> EuclidSq(node, get_node(z))]]

\* assess_neighbours without the test new_cost < neighbour.localcost: every
\* unvisited neighbour takes the popped node as its parent.
RECURSIVE assess_neighbours_always_updates(_, _, _, _)
assess_neighbours_always_updates(nd, out, node, i) ==
    IF i > Len(neighbours[node]) THEN [nodes |-> nd, out |-> out]
    ELSE LET neighbour == neighbours[node][i]
             new_cost == nd.localcost[node] + Root(EuclidSq(node, neighbour))
         IN  IF ~obstacle[neighbour] /\ ~nd.visited[neighbour]
             THEN assess_neighbours_always_updates(
                      update_cost(nd, neighbour, node, new_cost),
                      Append(out, neighbour), node, i + 1)
             ELSE assess_neighbours_always_updates(nd, out, node, i + 1)

\* assess_neighbours without the test not neighbour.visited, and with <= for
\* <: a visited neighbour takes a new parent of equal cost.
RECURSIVE assess_neighbours_revisits(_, _, _, _)
assess_neighbours_revisits(nd, out, node, i) ==
    IF i > Len(neighbours[node]) THEN [nodes |-> nd, out |-> out]
    ELSE LET neighbour == neighbours[node][i]
             new_cost == nd.localcost[node] + Root(EuclidSq(node, neighbour))
         IN  IF ~obstacle[neighbour]
             THEN assess_neighbours_revisits(
                      IF new_cost <= nd.localcost[neighbour]
                      THEN update_cost(nd, neighbour, node, new_cost)
                      ELSE nd,
                      Append(out, neighbour), node, i + 1)
             ELSE assess_neighbours_revisits(nd, out, node, i + 1)

\* assess_neighbours(node), from the i-th neighbour on; out is the list it
\* returns.
RECURSIVE assess_neighbours(_, _, _, _)
assess_neighbours(nd, out, node, i) ==
    IF i > Len(neighbours[node]) THEN [nodes |-> nd, out |-> out]
    ELSE LET neighbour == neighbours[node][i]
             new_cost == nd.localcost[node] + Root(EuclidSq(node, neighbour))
         IN  IF ~obstacle[neighbour] /\ ~nd.visited[neighbour]
             THEN assess_neighbours(
                      IF new_cost < nd.localcost[neighbour]
                      THEN update_cost(nd, neighbour, node, new_cost)
                      ELSE nd,
                      Append(out, neighbour), node, i + 1)
             ELSE assess_neighbours(nd, out, node, i + 1)

\* One pass of find_path's loop that pops a node (lines 234-240).
LoopPass(nd) ==
    LET sorted == Frontier(nd)
        popped == sorted[Len(sorted)]
        marked == [nd EXCEPT !.current = popped, !.visited[popped] = TRUE]
        assessed == assess_neighbours(marked, <<>>, popped, 1)
    IN  [assessed.nodes EXCEPT
            !.boundary = SubSeq(sorted, 1, Len(sorted) - 1) \o assessed.out]

\* find_path's loop run to its end.
RECURSIVE RunLoop(_)
RunLoop(nd) == IF Frontier(nd) = <<>> THEN nd ELSE RunLoop(LoopPass(nd))

\* The number of passes find_path's loop still makes.
RECURSIVE Passes(_)
Passes(nd) == IF Frontier(nd) = <<>> THEN 0 ELSE 1 + Passes(LoopPass(nd))

\* build_path that puts each node in front of the list.
RECURSIVE build_path_source_first(_, _)
build_path_source_first(par, node) ==
    IF node = None THEN <<>> ELSE build_path_source_first(par, par[node]) \o <<node>>

\* build_path(node) over the parent links par
RECURSIVE build_path(_, _)
build_path(par, node) ==
    IF node = None THEN <<>> ELSE <<node>> \o build_path(par, par[node])

----------------------------------------------------------------------------
\* setup(): initialise_nodes and find_neighbours.  No search has run yet.
InitGrid(nr, nc) ==
    /\ rows = nr
    /\ cols = nc
    /\ obstacle = [n \in Cells |-> FALSE]
    /\ visited = [n \in Cells |-> FALSE]
    /\ localcost = [n \in Cells |-> Sentinel]
    /\ globalcost = [n \in Cells |-> [l |-> Sentinel, h2 |-> 0]]
    /\ parent = [n \in Cells |-> None]
    /\ neighbours = find_neighbours
    /\ path = <<>>
    /\ boundary = <<>>
    /\ current = None
    /\ pc = "idle"
    /\ raised = FALSE

\* initialise_nodes' endpoints: a = (h / scale // 2, 5) and
\* z = (h / scale // 2, w // scale - 5), the 5 scaled down to Inset.
Init ==
    /\ InitGrid(Rows, Cols)
    /\ a = <<Rows \div 2, Inset>>
    /\ z = <<Rows \div 2, Cols - Inset>>

\* The edit without the test that the cell is no endpoint.
EditObstacle_on_endpoints(r, c, make, keyPressed) ==
    IF ~(keyPressed /\ ~obstacle[get_node(<<c, r>>)]) /\ in_range(c, r, 0, 0)
    THEN [obstacle EXCEPT ![<<c, r>>] = (make = LEFT)]
    ELSE obstacle

\* The obstacle flags after modify_path's edit (lines 198-203).
EditObstacle(r, c, make, keyPressed) ==
    IF ~(keyPressed /\ ~obstacle[get_node(<<c, r>>)])
       /\ <<c, r>> \notin {a, z} /\ in_range(c, r, 0, 0)
    THEN [obstacle EXCEPT ![<<c, r>>] = (make = LEFT)]
    ELSE obstacle

\* The source after modify_path's edit (lines 198-199).
EditSource(r, c, keyPressed, key) ==
    IF keyPressed /\ ~obstacle[get_node(<<c, r>>)] /\ key = SHIFT
    THEN <<c, r>> ELSE a

\* The destination after modify_path's edit (lines 198-200).
EditDestination(r, c, keyPressed, key) ==
    IF keyPressed /\ ~obstacle[get_node(<<c, r>>)] /\ key # SHIFT /\ key = COMMAND
    THEN <<c, r>> ELSE z

\* modify_path(r, c, make, key) up to the head of find_path's loop: the
\* edit, then find_path's reset and seeding.  keyPressed is Processing's
\* flag.  Events that would leave more than MaxObstacles obstacles are cut.
modify_path(r, c, make, keyPressed, key) ==
    /\ pc = "idle"
    /\ ~raised
    /\ keyPressed => GetNodeOK(<<c, r>>)
    /\ LET edited == EditObstacle(r, c, make, keyPressed)
           source == EditSource(r, c, keyPressed, key)
           destination == EditDestination(r, c, keyPressed, key)
           nd == find_path_seed(Fields, get_node(source), get_node(destination))
       IN  /\ Cardinality({n \in Cells : edited[n]}) <= MaxObstacles
           /\ obstacle' = edited
           /\ a' = source
           /\ z' = destination
           /\ visited' = nd.visited
           /\ localcost' = nd.localcost
           /\ globalcost' = nd.globalcost
           /\ parent' = nd.parent
           /\ current' = nd.current
           /\ boundary' = nd.boundary
    /\ pc' = "search"
    /\ UNCHANGED <<rows, cols, neighbours, path, raised>>

\* modify_path when get_node((c, r)) raises IndexError (line 198): the
\* exception leaves the handler and the sketch stops.
modify_path_raises(r, c, keyPressed) ==
    /\ pc = "idle"
    /\ ~raised
    /\ keyPressed
    /\ ~GetNodeOK(<<c, r>>)
    /\ raised' = TRUE
    /\ UNCHANGED <<rows, cols, a, z, obstacle, visited, localcost, globalcost,
                   parent, neighbours, path, boundary, current, pc>>

\* One pass of find_path's loop (lines 233-240) that pops a node.
find_path_iterate ==
    /\ pc = "search"
    /\ LET nd == Fields
       IN  /\ Frontier(nd) # <<>>
           /\ LET next == LoopPass(nd)
              IN  /\ current' = next.current
                  /\ visited' = next.visited
                  /\ localcost' = next.localcost
                  /\ globalcost' = next.globalcost
                  /\ parent' = next.parent
                  /\ boundary' = next.boundary
    /\ UNCHANGED <<rows, cols, a, z, obstacle, neighbours, path, pc, raised>>

\* The loop ends (line 233 or 236) and build_path(end) runs (line 242); the
\* locals boundary and current are gone when find_path returns.
find_path_build ==
    /\ pc = "search"
    /\ Frontier(Fields) = <<>>
    /\ path' = build_path(parent, get_node(z))
    /\ boundary' = <<>>
    /\ current' = None
    /\ pc' = "idle"
    /\ UNCHANGED <<rows, cols, a, z, obstacle, visited, localcost, globalcost,
                   parent, neighbours, raised>>

\* mouseButton is LEFT (37) or RIGHT (39); keyCode is Shift, Command or
\* another key.
Buttons == {LEFT, 39}

Keys == {SHIFT, COMMAND, 0}

\* Events whose coordinate lies on the grid.
Next ==
    \/ \E r \in 0 .. cols - 1, c \in 0 .. rows - 1, make \in Buttons,
          keyPressed \in BOOLEAN, key \in Keys :
          modify_path(r, c, make, keyPressed, key)
    \/ find_path_iterate
    \/ find_path_build

Spec == Init /\ [][Next]_vars

\* Events on the grid and up to one cell off it: the pointer may leave the
\* window while a button is held (mouseDragged).
NextOffGrid ==
    \/ \E r \in -1 .. cols, c \in -1 .. rows, make \in Buttons,
          keyPressed \in BOOLEAN, key \in Keys :
          modify_path(r, c, make, keyPressed, key)
    \/ \E r \in -1 .. cols, c \in -1 .. rows :
          modify_path_raises(r, c, TRUE)
    \/ find_path_iterate
    \/ find_path_build

SpecOffGrid == Init /\ [][NextOffGrid]_vars

\* The 4 x 4 grid of the documented scenarios, the endpoints given and
\* obstacles placed and removed without a key held.
Sources4 == {<<0, 0>>, <<2, 1>>}

Dests4 == {<<0, 3>>, <<3, 3>>, <<1, 2>>}

InitGrid4 ==
    /\ InitGrid(4, 4)
    /\ a \in Sources4
    /\ z \in Dests4

NextGrid4 ==
    \/ \E r \in 0 .. cols - 1, c \in 0 .. rows - 1, make \in Buttons :
          modify_path(r, c, make, FALSE, 0)
    \/ find_path_iterate
    \/ find_path_build

SpecGrid4 == InitGrid4 /\ [][NextGrid4]_vars

\* Grids of every size up to MaxSide that holds both endpoints (square and
\* not, down to a single row), the endpoints where initialise_nodes puts
\* them, and obstacles placed and removed without a key held.
InitSizes ==
    \E nr \in 1 .. MaxSide, nc \in Inset + 1 .. MaxSide :
        /\ InitGrid(nr, nc)
        /\ a = <<nr \div 2, Inset>>
        /\ z = <<nr \div 2, nc - Inset>>

SpecSizes == InitSizes /\ [][NextGrid4]_vars

----------------------------------------------------------------------------
(***************************************************************************)
(* Properties.  Reachability and distance are defined on the grid itself   *)
(* (cells one cardinal step apart, obstacles excluded), not on the         *)
(* neighbour lists or the costs of the search.                             *)
(***************************************************************************)
Adjacent(m, n) == Abs(m[1] - n[1]) + Abs(m[2] - n[2]) = 1

Obstacles == {n \in Cells : obstacle[n]}

\* Breadth-first layers from front: the number of cardinal steps to goal
\* through cells that are no obstacles, -1 when there is no such route.
RECURSIVE Hops(_, _, _, _)
Hops(front, seen, goal, d) ==
    IF goal \in front THEN d
    ELSE IF front = {} THEN -1
    ELSE LET further == {n \in Cells \ (seen \cup Obstacles) :
                            \E m \in front : Adjacent(m, n)}
         IN  Hops(further, seen \cup further, goal, d + 1)

Steps(m, n) == Hops({m}, {m}, n, 0)

\* A find_path has run to its end and no event is being handled
\* (build_path always leaves at least the end node in path).
Searched == pc = "idle" /\ path # <<>>

EndpointsFree == a \in Cells /\ z \in Cells /\ ~obstacle[a] /\ ~obstacle[z]

OnGrid(r, c) == 0 <= c /\ c < rows /\ 0 <= r /\ r < cols

\* C1: whenever the destination can be reached from the source, the path
\* left by find_path has as many nodes as the least number of cardinal steps
\* between them plus one; without obstacles that is |drow| + |dcol| + 1, and
\* on the 4 x 4 grid from (0,0) to (0,3) with obstacles (0,1), (0,2) it is 6.
C1_ShortestPath ==
    (Searched /\ EndpointsFree /\ Steps(a, z) >= 0) =>
        /\ Len(path) = Steps(a, z) + 1
        /\ Obstacles = {} => Len(path) = Abs(a[1] - z[1]) + Abs(a[2] - z[2]) + 1
        /\ (rows = 4 /\ cols = 4 /\ a = <<0, 0>> /\ z = <<0, 3>>
              /\ Obstacles = {<<0, 1>>, <<0, 2>>}) => Len(path) = 6

C1_Detour ==
    /\ Searched
    /\ a = <<0, 0>> /\ z = <<0, 3>>
    /\ Obstacles = {<<0, 1>>, <<0, 2>>}
    /\ Len(path) = 6

\* C2: after any events on the grid, whenever the destination can be reached
\* the stored path runs from the destination cell to the source cell, through
\* cells one cardinal step apart, over no obstacle and over no cell twice.
C2_PathIsRoute ==
    (Searched /\ Steps(a, z) >= 0) =>
        /\ path[1] = z
        /\ path[Len(path)] = a
        /\ \A i \in 1 .. Len(path) - 1 : Adjacent(path[i], path[i + 1])
        /\ \A i \in 1 .. Len(path) : path[i] \in Cells /\ ~obstacle[path[i]]
        /\ \A i, j \in 1 .. Len(path) : i # j => path[i] # path[j]

C2_RouteAroundObstacle ==
    /\ Searched
    /\ Steps(a, z) >= 0
    /\ Len(path) >= 3
    /\ Obstacles # {}

\* C3 as stated: on the 4 x 4 grid without obstacles the path from (0,0) to
\* (0,3) is (0,0), (0,1), (0,2), (0,3), the source first.
C3_SourceFirst ==
    (Searched /\ rows = 4 /\ cols = 4 /\ a = <<0, 0>> /\ z = <<0, 3>>
       /\ Obstacles = {}) =>
        path = << <<0, 0>>, <<0, 1>>, <<0, 2>>, <<0, 3>> >>

\* C3 amended: the path holds the same four cells of row 0, the destination
\* first and the source last.
C3_DestinationFirst ==
    (Searched /\ rows = 4 /\ cols = 4 /\ a = <<0, 0>> /\ z = <<0, 3>>
       /\ Obstacles = {}) =>
        path = << <<0, 3>>, <<0, 2>>, <<0, 1>>, <<0, 0>> >>

C3_Scenario ==
    /\ Searched
    /\ rows = 4 /\ cols = 4 /\ a = <<0, 0>> /\ z = <<0, 3>>
    /\ Obstacles = {}
    /\ Len(path) = 4

\* C4: a search whose destination cannot be reached from the source runs to
\* its end (from every pass on, the rest of the loop ends and build_path
\* follows), and the path it leaves is the destination cell alone.
C4_Unreachable ==
    (Steps(a, z) < 0) =>
        /\ pc = "search" => build_path(RunLoop(Fields).parent, get_node(z)) = <<z>>
        /\ Searched => path = <<z>>

C4_Enclosed ==
    /\ Searched
    /\ a # z
    /\ Steps(a, z) < 0
    /\ path = <<z>>

\* C5: the path left for a destination that cannot be reached differs from
\* the path find_path leaves when the source is the destination cell.
C5_Distinguishable ==
    (Searched /\ a # z /\ Steps(a, z) < 0) =>
        path # build_path(
                   RunLoop(find_path_seed(Fields, get_node(z), get_node(z))).parent,
                   get_node(z))

\* C6: in every state, after events at any coordinate and with any button and
\* key, the cells that a and z designate are no obstacles.
C6_EndpointsNeverObstacles ==
    ~obstacle[get_node(a)] /\ ~obstacle[get_node(z)]

\* C7: an event with a key held on a cell that is an obstacle changes neither
\* endpoint nor any obstacle flag, and the path found afterwards (the search
\* the event starts, run to its end on the unchanged grid) is the path before
\* the event.
C7_EndpointOntoObstacleRejected ==
    [][\A r \in 0 .. cols - 1, c \in 0 .. rows - 1, make \in Buttons,
          key \in {SHIFT, COMMAND} :
          (obstacle[<<c, r>>] /\ modify_path(r, c, make, TRUE, key)) =>
              /\ a' = a
              /\ z' = z
              /\ obstacle' = obstacle
              /\ build_path(RunLoop(Fields').parent, get_node(z)) = path]_vars

\* C8: an event without a key held on a cell of the grid leaves everything as
\* it is when the cell is the source or the destination, and otherwise sets
\* the cell's obstacle flag (true for the left button, false for the right)
\* and changes no other flag and no endpoint.
C8_ObstacleEdit ==
    [][\A r \in 0 .. cols - 1, c \in 0 .. rows - 1, make \in Buttons, key \in Keys :
          modify_path(r, c, make, FALSE, key) =>
              /\ a' = a
              /\ z' = z
              /\ obstacle' = IF <<c, r>> \in {a, z} THEN obstacle
                             ELSE [obstacle EXCEPT ![<<c, r>>] = (make = LEFT)]]_vars

\* C9: an event at a coordinate off the grid raises no error and changes
\* neither the endpoints, which stay on the grid, nor any obstacle flag,
\* whatever the button and the key.
C9_OffGridEventIgnored ==
    [][\A r \in -1 .. cols, c \in -1 .. rows, make \in Buttons,
          keyPressed \in BOOLEAN, key \in Keys :
          (~OnGrid(r, c) /\ (\/ modify_path(r, c, make, keyPressed, key)
                             \/ modify_path_raises(r, c, keyPressed))) =>
              /\ ~raised'
              /\ a' = a /\ a' \in Cells
              /\ z' = z /\ z' \in Cells
              /\ obstacle' = obstacle]_vars

\* C10: find_path run again on the grid as a finished search left it gives
\* the same path and the same visited flags, costs and parents on every cell.
C10_Idempotent ==
    Searched =>
        LET again == RunLoop(find_path_seed(Fields, get_node(a), get_node(z)))
        IN  /\ build_path(again.parent, get_node(z)) = path
            /\ again.visited = visited
            /\ again.localcost = localcost
            /\ again.globalcost = globalcost
            /\ again.parent = parent

C10_SecondSearch ==
    /\ Searched
    /\ Len(path) >= 3
    /\ \E n \in Cells : visited[n] /\ parent[n] # None

\* C11: reset_nodes leaves every cell unvisited, with both costs at the
\* sentinel and without a parent; the step that starts a find_path leaves
\* every cell but the start in that state (the start is seeded with cost 0);
\* and a find_path run, from its reset to build_path, changes no obstacle
\* flag, no neighbour list and neither endpoint.
C11_ResetAndFrame ==
    [][/\ LET nd == reset_nodes(Fields)
          IN  \A n \in Cells :
                  /\ ~nd.visited[n]
                  /\ nd.localcost[n] = Sentinel
                  /\ nd.globalcost[n] = [l |-> Sentinel, h2 |-> 0]
                  /\ nd.parent[n] = None
       /\ (pc = "idle" /\ pc' = "search") =>
              /\ \A n \in Cells : ~visited'[n] /\ parent'[n] = None
              /\ \A n \in Cells \ {get_node(a')} :
                     /\ localcost'[n] = Sentinel
                     /\ globalcost'[n] = [l |-> Sentinel, h2 |-> 0]
       /\ \A r \in 0 .. cols - 1, c \in 0 .. rows - 1, make \in Buttons :
              (<<c, r>> \in {a, z} /\ modify_path(r, c, make, FALSE, 0)) =>
                  UNCHANGED <<obstacle, neighbours, a, z>>
       /\ pc = "search" => UNCHANGED <<obstacle, neighbours, a, z>>]_vars

\* A search has just been started over the fields an earlier search left.
C11_ResetOverStale ==
    /\ pc = "search"
    /\ Len(path) >= 2
    /\ boundary = <<get_node(a)>>
    /\ \A n \in Cells : ~visited[n] /\ parent[n] = None
    /\ Obstacles # {}

\* C12: on every grid the neighbour list of every cell holds exactly the
\* cells of the grid one cardinal step away, each once and never the cell
\* itself; a cell is in its neighbour's list; and the lists stay what
\* find_neighbours made of them through every edit and search.
C12_Neighbours ==
    /\ \A n \in Cells :
          LET s == neighbours[n]
          IN  /\ {s[i] : i \in 1 .. Len(s)} = {m \in Cells : Adjacent(n, m)}
              /\ \A i, j \in 1 .. Len(s) : i # j => s[i] # s[j]
              /\ \A i \in 1 .. Len(s) : s[i] # n
              /\ \A i \in 1 .. Len(s) :
                     \E j \in 1 .. Len(neighbours[s[i]]) : neighbours[s[i]][j] = n
    /\ neighbours = find_neighbours

\* A search has ended on a grid that is not square and holds an obstacle.
C12_OblongGrid ==
    /\ Searched
    /\ rows # cols
    /\ Obstacles # {}
    /\ \E n \in Cells : Len(neighbours[n]) = 3

\* The positions of boundary that hold a node not yet visited.
Live == {i \in 1 .. Len(boundary) : ~visited[boundary[i]]}

\* Two costs l + sqrt(h2) are equal.
CostEqual(g1, g2) == ~CostLess(g1, g2) /\ ~CostLess(g2, g1)

\* C13: every pass of the search loop pops and marks visited a cell that is
\* no obstacle and was not visited, whose globalcost no unvisited entry of
\* the boundary undercuts; of the unvisited entries with that same cost it is
\* the one latest in the boundary (the stable sort keeps their order, so the
\* latest of them is last after the descending sort).
C13_PopsMinimum ==
    [][(pc = "search" /\ pc' = "search") =>
          LET popped == current'
              ties == {i \in Live : CostEqual(globalcost[boundary[i]], globalcost[popped])}
          IN  /\ ~obstacle[popped]
              /\ ~visited[popped]
              /\ visited'[popped]
              /\ \E i \in Live : boundary[i] = popped
              /\ \A i \in Live : ~CostLess(globalcost[boundary[i]], globalcost[popped])
              /\ \A i \in ties : \E j \in ties : j >= i /\ boundary[j] = popped]_vars

\* In the middle of a search two different unvisited cells of the boundary
\* share the least cost.
C13_TiedFrontier ==
    /\ pc = "search"
    /\ current # None /\ visited[current]
    /\ \E i, j \in Live :
          /\ boundary[i] # boundary[j]
          /\ CostEqual(globalcost[boundary[i]], globalcost[boundary[j]])
          /\ \A k \in Live : ~CostLess(globalcost[boundary[k]], globalcost[boundary[i]])

\* C14: in every step of a search after its reset no cell's localcost or
\* globalcost grows, and a visited cell stays visited and keeps its
\* localcost, its globalcost and its parent.
C14_CostsOnlyDecrease ==
    [][pc = "search" =>
          \A n \in Cells :
              /\ localcost'[n] <= localcost[n]
              /\ localcost[n] = Sentinel =>
                     globalcost[n].l = Sentinel /\ globalcost'[n].l <= Sentinel
              /\ localcost[n] < Sentinel =>
                     ~CostLess(globalcost[n], globalcost'[n])
              /\ visited[n] =>
                     /\ visited'[n]
                     /\ localcost'[n] = localcost[n]
                     /\ globalcost'[n] = globalcost[n]
                     /\ parent'[n] = parent[n]]_vars

\* In the middle of a search a cell reached through a parent is visited
\* while a cell of finite cost is still waiting next to a visited cell that
\* is not its parent.
C14_Relaxed ==
    /\ pc = "search"
    /\ \E n \in Cells : visited[n] /\ parent[n] # None
    /\ \E m \in Cells :
          /\ ~visited[m] /\ localcost[m] < Sentinel
          /\ \E p \in Cells : visited[p] /\ Adjacent(p, m) /\ parent[m] # p

Visited == {n \in Cells : visited[n]}

\* C15: from every state of a search the loop comes to its end: the next pass
\* marks exactly one cell that was not visited and unmarks none, the passes
\* still to come are as many as the cells they newly mark, the passes of the
\* whole run are no more than the cells that are no obstacles, and build_path
\* over the parents the loop leaves ends with a path of at most all cells.
C15_Terminates ==
    pc = "search" =>
        LET end == RunLoop(Fields)
            last == {n \in Cells : end.visited[n]}
        IN  /\ Frontier(end) = <<>>
            /\ Visited \subseteq last
            /\ Passes(Fields) = Cardinality(last) - Cardinality(Visited)
            /\ Cardinality(Visited) + Passes(Fields) <= Cardinality(Cells \ Obstacles)
            /\ Frontier(Fields) # <<>> =>
                   LET next == LoopPass(Fields)
                   IN  /\ \A n \in Visited : next.visited[n]
                       /\ Cardinality({n \in Cells \ Visited : next.visited[n]}) = 1
            /\ Len(build_path(end.parent, get_node(z))) \in 1 .. Cardinality(Cells)

\* The loop has come to its end with entries left in boundary, all of them
\* visited, on a grid with obstacles; build_path is next.
C15_Exhausted ==
    /\ pc = "search"
    /\ Frontier(Fields) = <<>>
    /\ boundary # <<>>
    /\ Obstacles # {}
    /\ Cardinality(Visited) >= 10

\* The cells a route of cardinal steps over no obstacle leads to from m.
Reached(m) == {n \in Cells : Steps(m, n) >= 0}

\* C16: no visited cell is an obstacle or out of reach of the source, and
\* when the loop has ended the visited cells are all the cells within reach
\* of the source, the source among them, whether the destination is one of
\* them or not.
C16_VisitsAllReachable ==
    /\ \A n \in Visited : ~obstacle[n] /\ n \in Reached(a)
    /\ (Searched \/ (pc = "search" /\ Frontier(Fields) = <<>>)) =>
           Visited = Reached(a) /\ a \in Visited

\* A finished search that reached the destination has visited a cell
\* farther from the source than the destination.
C16_BeyondDestination ==
    /\ Searched
    /\ Obstacles # {}
    /\ Steps(a, z) >= 0
    /\ \E n \in Visited : Steps(a, n) > Steps(a, z)

\* find_path's loop with the exit the specification allows: it stops as soon
\* as the destination is visited.
RECURSIVE RunLoopEarlyExit(_)
RunLoopEarlyExit(nd) ==
    IF Frontier(nd) = <<>> \/ nd.visited[get_node(z)] THEN nd
    ELSE RunLoopEarlyExit(LoopPass(nd))

\* C17: once the destination is visited the chain of parents from it is
\* already the chain the loop ends with, and from every state of a search
\* the loop that stops when the destination is visited leaves the same path
\* as the loop run until nothing is left to pop.
C17_EarlyExitSamePath ==
    pc = "search" =>
        LET full == build_path(RunLoop(Fields).parent, get_node(z))
        IN  /\ visited[get_node(z)] => build_path(parent, get_node(z)) = full
            /\ build_path(RunLoopEarlyExit(Fields).parent, get_node(z)) = full

\* The destination is visited, at the end of a chain of parents, and cells
\* are still waiting to be popped.
C17_DestinationPopped ==
    /\ pc = "search"
    /\ visited[get_node(z)]
    /\ Frontier(Fields) # <<>>
    /\ Len(build_path(parent, get_node(z))) >= 3
    /\ Obstacles # {}

\* The cost assess_neighbours adds for a step between neighbours: the
\* distance of two adjacent nodes, scale pixels, 1 unit.
StepCost == Root(EuclidSq(<<0, 0>>, <<0, 1>>))

\* C18: the localcost of every visited cell, from the pass that marks it to
\* the next reset, is the step cost times the least number
\* of cardinal steps from the source to it over no obstacle.
C18_VisitedCostIsDistance ==
    \A n \in Visited : localcost[n] = StepCost * Steps(a, n)

\* A finished search has visited a cell that lies farther from the source
\* than it would without the obstacles.
C18_CostOfDetour ==
    /\ Searched
    /\ \E n \in Visited :
          /\ localcost[n] > Abs(a[1] - n[1]) + Abs(a[2] - n[2])
          /\ localcost[n] < Sentinel

\* C19: in every state the source cell has no parent; the parent p of a cell
\* c is visited, no obstacle and one cardinal step from c, c is no obstacle
\* and costs one step more than p; and the parent links from a cell that has
\* a parent lead to the source over no cell twice (a cell the search has not
\* reached has no parent: its chain is the cell alone).
C19_ParentLinks ==
    /\ parent[get_node(a)] = None
    /\ \A c \in Cells : parent[c] # None =>
          LET p == parent[c]
          IN  /\ p \in Cells
              /\ visited[p]
              /\ ~obstacle[p]
              /\ Adjacent(p, c)
              /\ ~obstacle[c]
              /\ localcost[c] = localcost[p] + StepCost
    /\ \A c \in Cells : parent[c] # None =>
          LET chain == build_path(parent, c)
          IN  /\ chain[Len(chain)] = get_node(a)
              /\ Len(chain) <= Cardinality(Cells)
              /\ \A i, j \in 1 .. Len(chain) : i # j => chain[i] # chain[j]

\* In the middle of a search on a grid with obstacles a waiting cell has a
\* parent that has a parent.
C19_ChainInSearch ==
    /\ pc = "search"
    /\ Obstacles # {}
    /\ \E c \in Cells : ~visited[c] /\ parent[c] # None /\ parent[parent[c]] # None

====
